---- MODULE Spec2Model ----
(***************************************************************************)
(* ClickSquareGame (src/code.py): the countdown / running / ended session  *)
(* of the clicking trainer, its Tk timer callbacks, canvas clicks, the     *)
(* Repeat / Close / Plot buttons of the end screen and the scores.csv log. *)
(*                                                                         *)
(* Time is counted in milliseconds: a reading t of the model's clock is    *)
(* the value time.time() = t / 1000 seconds.  Each event handler is one    *)
(* atomic step (Tk runs handlers one at a time on the main loop) and reads *)
(* the clock once.                                                         *)
(***************************************************************************)
EXTENDS Integers, Sequences, FiniteSets, TLC

\* ---------------------------------------------------------------- bounds
\* Wall-clock time that passes in one Elapse step (ms).
ClockStep == 5000
\* The clock is not advanced beyond this reading (ms).
MaxClock == 80000
\* How often the wall clock is set back during a run.
MaxAdjusts == 1
\* Total number of hits / of misses over a run.
MaxHits == 1
MaxMisses == 1
\* Number of sessions started (construction plus Repeat presses).
MaxSessions == 2

\* ------------------------------------------------------ program constants
WIDTH == 700
HEIGHT == 700
SQUARE_SIZE == 10
\* GAME_DURATION = 15.00 seconds
GAME_DURATION == 15
\* show_countdown(5) in start_game
COUNTDOWN_START == 5
\* root.after(1000, ...) in show_countdown, root.after(100, ...) in
\* update_timer and in flash_screen
COUNTDOWN_DELAY == 1000
TIMER_DELAY == 100
FLASH_DELAY == 100
\* .head(10) in end_game
TOP_N == 10
\* (time.time() - ...) * 1000: milliseconds per second
MS == 1000
\* Python's None for the numeric fields (start_time, square_id, ...)
None == -1
\* Tk's Canvas is created without highlightthickness / borderwidth options,
\* so it keeps Tk's defaults: winfo_width() is the requested width plus
\* twice the inset (highlight ring + border).
CANVAS_HIGHLIGHT == 1
CANVAS_BORDER == 0

VARIABLES
  score, misses, time_left, game_running, start_time, square_id,
  reaction_times, click_count, square_spawn_time, last_row_id,
  canvas,          \* the canvas display list: a sequence of items
  canvas_bg,       \* canvas background colour
  next_item_id,    \* the id Tk gives the next canvas item
  score_label, time_label,
  after_q,         \* callbacks scheduled with root.after and not yet run
  csv,             \* the data rows of scores.csv, in file order
  raised,          \* the exception the last handler ended with, or "none"
  destroyed,       \* root.destroy() was called
  store_state,     \* whether scores.csv can be written and read
  now,             \* the reading of the wall clock, in ms
  ev,              \* the last event handled (history)
  sessions, adjusts

progvars == <<score, misses, time_left, game_running, start_time, square_id,
              reaction_times, click_count, square_spawn_time, last_row_id,
              canvas, canvas_bg, next_item_id, score_label, time_label,
              after_q, csv, raised, destroyed>>
vars == <<progvars, store_state, now, ev, sessions, adjusts>>

Max(a, b) == IF a >= b THEN a ELSE b

\* The program state as one record, so that a handler is a function from
\* the state before it to the state after it.
St ==
  [score |-> score, misses |-> misses, time_left |-> time_left,
   game_running |-> game_running, start_time |-> start_time,
   square_id |-> square_id, reaction_times |-> reaction_times,
   click_count |-> click_count, square_spawn_time |-> square_spawn_time,
   last_row_id |-> last_row_id, canvas |-> canvas, canvas_bg |-> canvas_bg,
   next_item_id |-> next_item_id, score_label |-> score_label,
   time_label |-> time_label, after_q |-> after_q, csv |-> csv,
   raised |-> raised, destroyed |-> destroyed, store_state |-> store_state]

Assign(s) ==
  /\ score' = s.score /\ misses' = s.misses /\ time_left' = s.time_left
  /\ game_running' = s.game_running /\ start_time' = s.start_time
  /\ square_id' = s.square_id /\ reaction_times' = s.reaction_times
  /\ click_count' = s.click_count
  /\ square_spawn_time' = s.square_spawn_time
  /\ last_row_id' = s.last_row_id /\ canvas' = s.canvas
  /\ canvas_bg' = s.canvas_bg /\ next_item_id' = s.next_item_id
  /\ score_label' = s.score_label /\ time_label' = s.time_label
  /\ after_q' = s.after_q /\ csv' = s.csv /\ raised' = s.raised
  /\ destroyed' = s.destroyed

\* ------------------------------------------------------------ helpers
RECURSIVE SumSeq(_)
\* sum(self.reaction_times)
SumSeq(q) == IF q = <<>> THEN 0 ELSE Head(q) + SumSeq(Tail(q))

\* Accuracy with the denominator misses instead of misses + score.
Accuracy_over_misses(sc, mi) == IF mi > 0 THEN <<sc, mi>> ELSE <<0, 1>>

\* float(score) / (misses + score) if (misses + score) > 0 else 0.0, kept
\* exact as the fraction <<numerator, denominator>>.
Accuracy(sc, mi) == IF (mi + sc) > 0 THEN <<sc, mi + sc>> ELSE <<0, 1>>

\* strftime("%d.%m.%Y %H:%M", gmtime()): the clock reading cut to the minute.
FormatDate(t) == t \div (60 * MS)

\* A canvas item: its id, its kind, its coordinates and what it shows.
Item(id, kind, x1, y1, x2, y2, val) ==
  [id |-> id, kind |-> kind, x1 |-> x1, y1 |-> y1, x2 |-> x2, y2 |-> y2,
   val |-> val]

\* canvas.create_text / canvas.create_rectangle: the item is put on top of
\* the display list and gets the next id.
create_item(s, kind, x1, y1, x2, y2, val) ==
  [s EXCEPT !.canvas = Append(@, Item(s.next_item_id, kind, x1, y1, x2, y2, val)),
            !.next_item_id = @ + 1]

\* canvas.delete(item_id)
canvas_delete(c, id) == SelectSeq(c, LAMBDA it : it.id # id)

\* canvas.find_overlapping(x, y, x, y): the ids of the items the point is on.
find_overlapping(c, px, py) ==
  {c[i].id : i \in {j \in DOMAIN c : /\ c[j].x1 <= px /\ px <= c[j].x2
                                      /\ c[j].y1 <= py /\ py <= c[j].y2}}

\* canvas.winfo_width() / winfo_height() of the packed canvas: the requested
\* size plus the border and highlight ring on both sides.
winfo_width == WIDTH + 2 * (CANVAS_BORDER + CANVAS_HIGHLIGHT)
winfo_height == HEIGHT + 2 * (CANVAS_BORDER + CANVAS_HIGHLIGHT)

\* The draws of random.randint(lo, hi) the model follows: both ends.
randint(lo, hi) == {lo, hi}

\* root.after(delay, fn(arg))
after(s, fn, arg, delay) ==
  [s EXCEPT !.after_q = Append(@, [fn |-> fn, arg |-> arg, delay |-> delay])]

\* ----------------------------------------------------------- handlers
\* spawn_square without the canvas.delete of the old square.
spawn_square_keeps_old(s, t, x, y) ==
  LET s2 == create_item(s, "square", x, y, x + SQUARE_SIZE, y + SQUARE_SIZE, <<>>)
  IN  [s2 EXCEPT !.square_id = s.next_item_id, !.square_spawn_time = t]

\* spawn_square, with (x, y) the two random draws and t the clock reading.
spawn_square(s, t, x, y) ==
  LET s1 == IF s.square_id # None /\ s.square_id # 0
            THEN [s EXCEPT !.canvas = canvas_delete(@, s.square_id)]
            ELSE s
      s2 == create_item(s1, "square", x, y, x + SQUARE_SIZE, y + SQUARE_SIZE, <<>>)
  IN  [s2 EXCEPT !.square_id = s1.next_item_id, !.square_spawn_time = t]

\* pd.read_csv('scores.csv'): the frame of the file's data rows.  Numbers
\* and the date text come back as written; an empty field is one of
\* read_csv's default missing-value markers and comes back as NaN.
read_csv(file) ==
  [i \in DOMAIN file |-> [file[i] EXCEPT !.name = IF @ = "" THEN "NaN" ELSE @]]

\* add_row_to_csv opening the file with mode "w".
add_row_to_csv_truncating(file, row) == <<row>>

\* add_row_to_csv: the row is written after the rows the file holds.
add_row_to_csv(file, row) == Append(file, row)

\* save_score: append the row to scores.csv, read the file back and keep
\* the index of the last row.  open(..., "a") raises when the file cannot
\* be written, read_csv raises on a file it cannot parse.
save_score(s, t) ==
  LET row == [date |-> FormatDate(t), score |-> s.score, name |-> "",
              misses |-> s.misses, accuracy |-> Accuracy(s.score, s.misses)]
      file == add_row_to_csv(s.csv, row)
  IN  IF s.store_state = "unwritable"
      THEN [s EXCEPT !.raised = "OSError"]
      ELSE IF s.store_state = "corrupt"
      THEN [s EXCEPT !.csv = file, !.raised = "ParserError"]
      ELSE [s EXCEPT !.csv = file, !.last_row_id = Len(read_csv(file)) - 1]

\* sort_values(by='score', ascending=False): the orders of the row numbers
\* 1..n the sort may produce (the default sort is not stable, so rows of
\* equal score may come in any order).
IsSortedOrder(order, rows) ==
  /\ Len(order) = Len(rows)
  /\ {order[i] : i \in DOMAIN order} = DOMAIN rows
  /\ \A i, j \in DOMAIN order : i < j => rows[order[i]].score >= rows[order[j]].score

RECURSIVE SortedFrom(_, _)
\* The sorted orders of the row numbers in `rest`: a row of the highest
\* score left comes next.
SortedFrom(rows, rest) ==
  IF rest = {} THEN {<<>>}
  ELSE LET tops == {i \in rest : \A j \in rest : rows[i].score >= rows[j].score}
       IN  UNION {{<<i>> \o q : q \in SortedFrom(rows, rest \ {i})} : i \in tops}

\* The orders sort_values may give the rows of the file once this
\* session's row is appended.
Orders(s, t) == SortedFrom(save_score(s, t).csv, DOMAIN save_score(s, t).csv)

\* The three CanvasButtons of the end screen: a rectangle and its label.
end_buttons(s) ==
  LET b1 == create_item(s, "button", WIDTH \div 2 - 100, 220, WIDTH \div 2 + 100, 265, <<1>>)
      b2 == create_item(b1, "label", WIDTH \div 2, 242, WIDTH \div 2, 242, <<1>>)
      b3 == create_item(b2, "button", WIDTH \div 2 - 100, 280, WIDTH \div 2 + 100, 325, <<2>>)
      b4 == create_item(b3, "label", WIDTH \div 2, 302, WIDTH \div 2, 302, <<2>>)
      b5 == create_item(b4, "button", WIDTH \div 2 - 100, 340, WIDTH \div 2 + 100, 385, <<3>>)
  IN  create_item(b5, "label", WIDTH \div 2, 362, WIDTH \div 2, 362, <<3>>)

\* ranking_rows without .head(10).
ranking_rows_untruncated(s, order) ==
  LET n == Len(order)
      line(i) ==
        LET r == read_csv(s.csv)[order[i]]
        IN  Item(s.next_item_id + i - 1, "row",
                 WIDTH \div 2, 400 + i * 28, WIDTH \div 2, 400 + i * 28,
                 <<i, r.score, r.accuracy[1], r.accuracy[2], r.date,
                   order[i] - 1,
                   IF (i - 1) = s.last_row_id THEN 1 ELSE 0>>)
  IN  [s EXCEPT !.canvas = @ \o [i \in 1..n |-> line(i)],
                !.next_item_id = @ + n]

\* The ranking rows: rank i shows the i-th row of the sorted frame; after
\* reset_index() the frame's Index is the position i - 1 and the row's
\* number in the file is the column "index".
ranking_rows(s, order) ==
  LET n == IF Len(order) < TOP_N THEN Len(order) ELSE TOP_N
      line(i) ==
        LET r == read_csv(s.csv)[order[i]]
        IN  Item(s.next_item_id + i - 1, "row",
                 WIDTH \div 2, 400 + i * 28, WIDTH \div 2, 400 + i * 28,
                 <<i, r.score, r.accuracy[1], r.accuracy[2], r.date,
                   order[i] - 1,
                   IF (i - 1) = s.last_row_id THEN 1 ELSE 0>>)
  IN  [s EXCEPT !.canvas = @ \o [i \in 1..n |-> line(i)],
                !.next_item_id = @ + n]

\* end_game.  `order` is the result of the ranking's sort.
end_game(s, t, order) ==
  LET s1 == [s EXCEPT !.game_running = FALSE, !.canvas = <<>>]
      s2 == save_score(s1, t)
      accuracy == Accuracy(s2.score, s2.misses)
  IN  IF s2.raised # "none"
      THEN \* save_score raised: the exception leaves end_game
           s2
      ELSE IF s2.click_count = 0
      THEN \* sum(self.reaction_times) / float(self.click_count)
           [s2 EXCEPT !.raised = "ZeroDivisionError"]
      ELSE LET s3 == create_item(s2, "final", WIDTH \div 2, 110, WIDTH \div 2, 110,
                                 <<s2.score, accuracy[1], accuracy[2],
                                   SumSeq(s2.reaction_times), s2.click_count>>)
               s4 == end_buttons(s3)
               s5 == create_item(s4, "header", WIDTH \div 2, 400, WIDTH \div 2, 400, <<>>)
           IN  IF s4.store_state = "ranking_unreadable"
               THEN \* the ranking's own pd.read_csv raises
                    [s4 EXCEPT !.raised = "ParserError"]
               ELSE ranking_rows(s5, order)

\* update_timer that schedules itself again after it has ended the game.
update_timer_reschedules_at_end(s, t, order) ==
  IF ~s.game_running THEN s
  ELSE LET elapsed == t - s.start_time
           remaining == Max(0, GAME_DURATION * MS - elapsed)
           s1 == [s EXCEPT !.time_label = remaining]
       IN  IF remaining <= 0
           THEN after(end_game(s1, t, order), "update_timer", 0, TIMER_DELAY)
           ELSE after(s1, "update_timer", 0, TIMER_DELAY)

\* update_timer
update_timer(s, t, order) ==
  IF ~s.game_running THEN s
  ELSE LET elapsed == t - s.start_time
           remaining == Max(0, GAME_DURATION * MS - elapsed)
           s1 == [s EXCEPT !.time_label = remaining]
       IN  IF remaining <= 0
           THEN end_game(s1, t, order)
           ELSE after(s1, "update_timer", 0, TIMER_DELAY)

\* begin_game without its call of update_timer.
begin_game_without_timer(s, t, x, y, order) ==
  LET s1 == [s EXCEPT !.canvas = <<>>, !.start_time = t, !.game_running = TRUE]
  IN  spawn_square(s1, t, x, y)

\* begin_game
begin_game(s, t, x, y, order) ==
  LET s1 == [s EXCEPT !.canvas = <<>>, !.start_time = t, !.game_running = TRUE]
  IN  update_timer(spawn_square(s1, t, x, y), t, order)

\* show_countdown that starts the game one callback early (count > 1).
show_countdown_early(s, count, t, x, y, order) ==
  LET s1 == [s EXCEPT !.canvas = <<>>]
  IN  IF count > 1
      THEN after(create_item(s1, "countdown", WIDTH \div 2, HEIGHT \div 2,
                             WIDTH \div 2, HEIGHT \div 2, <<count>>),
                 "show_countdown", count - 1, COUNTDOWN_DELAY)
      ELSE begin_game(s1, t, x, y, order)

\* show_countdown(count)
show_countdown(s, count, t, x, y, order) ==
  LET s1 == [s EXCEPT !.canvas = <<>>]
  IN  IF count > 0
      THEN after(create_item(s1, "countdown", WIDTH \div 2, HEIGHT \div 2,
                             WIDTH \div 2, HEIGHT \div 2, <<count>>),
                 "show_countdown", count - 1, COUNTDOWN_DELAY)
      ELSE begin_game(s1, t, x, y, order)

\* start_game
start_game(s, t, x, y, order) ==
  LET s1 == [s EXCEPT !.score = 0, !.time_left = GAME_DURATION * MS,
                      !.game_running = FALSE, !.start_time = None,
                      !.score_label = 0, !.time_label = GAME_DURATION * MS,
                      !.canvas = <<>>, !.canvas_bg = "white"]
  IN  show_countdown(s1, COUNTDOWN_START, t, x, y, order)

\* flash_screen
flash_screen(s) ==
  after([s EXCEPT !.canvas_bg = "black"], "flash_end", 0, FLASH_DELAY)

\* handle_click without its "if not self.game_running: return".
handle_click_unguarded(s, t, px, py, x, y) ==
  IF s.square_id \in find_overlapping(s.canvas, px, py)
  THEN LET reaction_time == t - s.square_spawn_time
           s1 == [s EXCEPT !.score = @ + 1, !.click_count = @ + 1,
                           !.reaction_times = Append(@, reaction_time),
                           !.score_label = s.score + 1]
       IN  spawn_square(s1, t, x, y)
  ELSE flash_screen([s EXCEPT !.misses = @ + 1])

\* handle_click that moves the square on a miss too.
handle_click_miss_respawns(s, t, px, py, x, y) ==
  IF ~s.game_running THEN s
  ELSE IF s.square_id \in find_overlapping(s.canvas, px, py)
       THEN LET reaction_time == t - s.square_spawn_time
                s1 == [s EXCEPT !.score = @ + 1, !.click_count = @ + 1,
                                !.reaction_times = Append(@, reaction_time),
                                !.score_label = s.score + 1]
            IN  spawn_square(s1, t, x, y)
       ELSE spawn_square(flash_screen([s EXCEPT !.misses = @ + 1]), t, x, y)

\* handle_click that also returns once the session's 15 s are over.
handle_click_deadline(s, t, px, py, x, y) ==
  IF ~s.game_running \/ t - s.start_time >= GAME_DURATION * MS THEN s
  ELSE IF s.square_id \in find_overlapping(s.canvas, px, py)
       THEN LET reaction_time == t - s.square_spawn_time
                s1 == [s EXCEPT !.score = @ + 1, !.click_count = @ + 1,
                                !.reaction_times = Append(@, reaction_time),
                                !.score_label = s.score + 1]
            IN  spawn_square(s1, t, x, y)
       ELSE flash_screen([s EXCEPT !.misses = @ + 1])

\* handle_click(event) at (px, py); (x, y) are the draws of a respawn.
handle_click(s, t, px, py, x, y) ==
  IF ~s.game_running THEN s
  ELSE IF s.square_id \in find_overlapping(s.canvas, px, py)
       THEN LET reaction_time == t - s.square_spawn_time
                s1 == [s EXCEPT !.score = @ + 1, !.click_count = @ + 1,
                                !.reaction_times = Append(@, reaction_time),
                                !.score_label = s.score + 1]
            IN  spawn_square(s1, t, x, y)
       ELSE flash_screen([s EXCEPT !.misses = @ + 1])

\* The state __init__ sets before setup_ui: the fields, an empty canvas.
Constructed ==
  [score |-> 0, misses |-> 0, time_left |-> GAME_DURATION * MS,
   game_running |-> FALSE, start_time |-> None, square_id |-> None,
   reaction_times |-> <<>>, click_count |-> 0, square_spawn_time |-> None,
   last_row_id |-> None, canvas |-> <<>>, canvas_bg |-> "white",
   next_item_id |-> 1, score_label |-> 0, time_label |-> GAME_DURATION * MS,
   after_q |-> <<>>, csv |-> <<>>, raised |-> "none", destroyed |-> FALSE,
   store_state |-> "ok"]

\* ------------------------------------------------------- initial state
\* scores.csv as the game finds it: its header line and the row of an
\* earlier run.
InitialStores ==
  { << [date |-> 0, score |-> 1, name |-> "", misses |-> 1, accuracy |-> <<1, 2>>] >> }

\* __init__ ends in setup_ui, which calls start_game: the first countdown
\* digit is on the canvas and show_countdown(4) is scheduled.
Started(store, state) ==
  LET s == start_game([Constructed EXCEPT !.csv = store, !.store_state = state],
                      0, 0, 0, <<>>)
  IN  /\ score = s.score /\ misses = s.misses /\ time_left = s.time_left
      /\ game_running = s.game_running /\ start_time = s.start_time
      /\ square_id = s.square_id /\ reaction_times = s.reaction_times
      /\ click_count = s.click_count
      /\ square_spawn_time = s.square_spawn_time
      /\ last_row_id = s.last_row_id /\ canvas = s.canvas
      /\ canvas_bg = s.canvas_bg /\ next_item_id = s.next_item_id
      /\ score_label = s.score_label /\ time_label = s.time_label
      /\ after_q = s.after_q /\ csv = s.csv /\ raised = s.raised
      /\ destroyed = s.destroyed /\ store_state = s.store_state
      /\ now = 0
      /\ ev = [op |-> "init", arg |-> 0, px |-> 0, py |-> 0]
      /\ sessions = 1
      /\ adjusts = 0

\* The game starts with a scores.csv that can be written and read.
Init == \E store \in InitialStores : Started(store, "ok")

\* ------------------------------------------------------------- actions
Remove(q, i) == SubSeq(q, 1, i - 1) \o SubSeq(q, i + 1, Len(q))

\* The state a callback or event handler starts from: Tk has taken the
\* callback (if any) off its timer list.
Entry(q) == [St EXCEPT !.after_q = q, !.raised = "none"]

\* The points the model clicks at: the centre of the square spawn_square
\* created last, and the centre of the canvas.
ClickPoints ==
  {<<WIDTH \div 2, HEIGHT \div 2>>} \cup
  {<<canvas[i].x1 + SQUARE_SIZE \div 2, canvas[i].y1 + SQUARE_SIZE \div 2>> :
     i \in {j \in DOMAIN canvas : canvas[j].id = square_id}}

\* The current session's phase.
Phase ==
  IF game_running THEN "Running"
  ELSE IF \E i \in DOMAIN after_q : after_q[i].fn = "show_countdown"
       THEN "Countdown"
       ELSE "Ended"

\* Real time passes: the wall clock advances and the scheduled callbacks
\* come nearer to being due.  The main loop runs a callback that is due
\* before it waits any longer; a click may still come before the callback.
Elapse ==
  /\ ~destroyed
  /\ \A i \in DOMAIN after_q : after_q[i].delay > 0
  /\ now + ClockStep <= MaxClock
  /\ now' = now + ClockStep
  /\ after_q' = [i \in DOMAIN after_q |->
                   [after_q[i] EXCEPT !.delay = Max(0, @ - ClockStep)]]
  /\ UNCHANGED <<score, misses, time_left, game_running, start_time, square_id,
                 reaction_times, click_count, square_spawn_time, last_row_id,
                 canvas, canvas_bg, next_item_id, score_label, time_label,
                 csv, raised, destroyed, ev, sessions, adjusts, store_state>>

\* The wall clock time.time() reads is set back (an NTP step, a manual
\* change of the system time).  The model sets it back while a session is
\* running, the phase in which the game compares clock readings.
AdjustClock ==
  /\ ~destroyed
  /\ game_running
  /\ adjusts < MaxAdjusts
  /\ now >= ClockStep
  /\ now' = now - ClockStep
  /\ adjusts' = adjusts + 1
  /\ UNCHANGED <<progvars, ev, sessions, store_state>>

\* A due show_countdown(count) callback runs.
CountdownTick ==
  /\ ~destroyed
  /\ \E i \in DOMAIN after_q :
       /\ after_q[i].fn = "show_countdown"
       /\ after_q[i].delay = 0
       /\ \E x \in randint(0, winfo_width - SQUARE_SIZE),
             y \in randint(0, winfo_height - SQUARE_SIZE),
             order \in Orders(St, now) :
            /\ IsSortedOrder(order, save_score(St, now).csv)
            /\ Assign(show_countdown(Entry(Remove(after_q, i)), after_q[i].arg,
                                     now, x, y, order))
       /\ ev' = [op |-> "show_countdown", arg |-> after_q[i].arg, px |-> 0, py |-> 0]
  /\ UNCHANGED <<now, sessions, adjusts, store_state>>

\* A due update_timer callback runs.
TimerTick ==
  /\ ~destroyed
  /\ \E i \in DOMAIN after_q :
       /\ after_q[i].fn = "update_timer"
       /\ after_q[i].delay = 0
       /\ \E order \in Orders(St, now) :
            /\ IsSortedOrder(order, save_score(St, now).csv)
            /\ Assign(update_timer(Entry(Remove(after_q, i)), now, order))
  /\ ev' = [op |-> "update_timer", arg |-> 0, px |-> 0, py |-> 0]
  /\ UNCHANGED <<now, sessions, adjusts, store_state>>

\* The callback of flash_screen runs: the background is white again.
FlashEnd ==
  /\ ~destroyed
  /\ \E i \in DOMAIN after_q :
       /\ after_q[i].fn = "flash_end"
       /\ after_q[i].delay = 0
       /\ Assign([Entry(Remove(after_q, i)) EXCEPT !.canvas_bg = "white"])
  /\ ev' = [op |-> "flash_end", arg |-> 0, px |-> 0, py |-> 0]
  /\ UNCHANGED <<now, sessions, adjusts, store_state>>

\* <Button-1> on the canvas at (px, py).
Click ==
  /\ ~destroyed
  /\ \E p \in ClickPoints,
        x \in randint(0, winfo_width - SQUARE_SIZE),
        y \in randint(0, winfo_height - SQUARE_SIZE) :
       LET s == handle_click(Entry(after_q), now, p[1], p[2], x, y)
       IN  /\ s.click_count <= MaxHits
           /\ s.misses <= MaxMisses
           /\ Assign(s)
           /\ ev' = [op |-> "click", arg |-> 0, px |-> p[1], py |-> p[2]]
  /\ UNCHANGED <<now, sessions, adjusts, store_state>>

\* Which CanvasButton (1 plot, 2 repeat, 3 close) is on the canvas.
HasButton(k) ==
  \E i \in DOMAIN canvas : canvas[i].kind = "button" /\ canvas[i].val = <<k>>

\* <Button-1> on the Repeat button: its command start_game runs, then the
\* canvas's own binding handle_click (the game is not running by then).
Repeat ==
  /\ ~destroyed
  /\ HasButton(2)
  /\ sessions < MaxSessions
  /\ LET s == start_game(Entry(after_q), now, 0, 0, <<>>)
     IN  Assign(handle_click(s, now, WIDTH \div 2, 302, 0, 0))
  /\ ev' = [op |-> "repeat", arg |-> 0, px |-> WIDTH \div 2, py |-> 302]
  /\ sessions' = sessions + 1
  /\ UNCHANGED <<now, adjusts, store_state>>

\* <Button-1> on "Show Reaction Plot": plot_reaction_times draws a chart
\* and changes nothing of the game.
Plot ==
  /\ ~destroyed
  /\ HasButton(1)
  /\ Assign(handle_click(Entry(after_q), now, WIDTH \div 2, 242, 0, 0))
  /\ ev' = [op |-> "plot", arg |-> 0, px |-> WIDTH \div 2, py |-> 242]
  /\ UNCHANGED <<now, sessions, adjusts, store_state>>

\* <Button-1> on "Close Game": root.destroy.
Close ==
  /\ ~destroyed
  /\ HasButton(3)
  /\ Assign([Entry(after_q) EXCEPT !.destroyed = TRUE])
  /\ ev' = [op |-> "close", arg |-> 0, px |-> WIDTH \div 2, py |-> 362]
  /\ UNCHANGED <<now, sessions, adjusts, store_state>>

Next ==
  \/ Elapse
  \/ AdjustClock
  \/ CountdownTick
  \/ TimerTick
  \/ FlashEnd
  \/ Click
  \/ Repeat
  \/ Plot
  \/ Close

Spec == Init /\ [][Next]_vars

\* A callback of function fn is due.
Due(fn) ==
  /\ ~destroyed
  /\ \E i \in DOMAIN after_q : after_q[i].fn = fn /\ after_q[i].delay = 0

\* The steps of the game under a clock that is never set back.
NextAdvancing ==
  \/ Elapse
  \/ CountdownTick
  \/ TimerTick
  \/ FlashEnd
  \/ Click
  \/ Repeat
  \/ Plot
  \/ Close

\* The main loop runs every callback that is due, and the clock goes on:
\* weak fairness of the three callback actions and of Elapse.  For
\* CountdownTick and TimerTick the condition is written out, with Due in
\* the place of ENABLED: either action is enabled, and changes after_q,
\* exactly when its callback is due.
FairSpec ==
  /\ Init /\ [][NextAdvancing]_vars
  /\ ([]<>(~Due("show_countdown")) \/ []<><<CountdownTick>>_vars)
  /\ ([]<>(~Due("update_timer")) \/ []<><<TimerTick>>_vars)
  /\ WF_vars(FlashEnd)
  /\ WF_vars(Elapse)

\* ------------------------------------------- a store that may fail
\* scores.csv may be read-only ("unwritable"), hold a line read_csv cannot
\* parse ("corrupt"), or become unreadable between save_score's read and
\* the ranking's read ("ranking_unreadable").
StoreStates == {"ok", "unwritable", "corrupt", "ranking_unreadable"}

InitIO == \E store \in InitialStores, state \in StoreStates : Started(store, state)

SpecIO == InitIO /\ [][Next]_vars

\* --------------------------------------------- stores of many rows
\* A row an earlier run wrote: its date, score and misses, the empty
\* name and the accuracy save_score computes.
Row(date, sc, mi) ==
  [date |-> date, score |-> sc, name |-> "", misses |-> mi,
   accuracy |-> Accuracy(sc, mi)]

\* Twelve rows of scores first, first - 1, ..., each a minute later.
RECURSIVE Falling(_, _)
Falling(first, n) ==
  IF n = 0 THEN <<>> ELSE <<Row(12 - n, first, 0)>> \o Falling(first - 1, n - 1)

\* The files the ranking is checked on: a file of the header line only;
\* one earlier run without a hit; two earlier runs of one hit each, the
\* later one first; a run more than the ranking holds, all above what
\* a session of this model scores; and as many with the last three
\* without a hit.
StoreSamples ==
  { <<>>,
    <<Row(0, 0, 1)>>,
    <<Row(2, 1, 0), Row(1, 1, 1)>>,
    Falling(TOP_N + 12, TOP_N + 2),
    Falling(TOP_N + 12, TOP_N - 1) \o <<Row(11, 0, 1), Row(12, 0, 2), Row(13, 0, 3)>> }

InitStore == \E store \in StoreSamples : Started(store, "ok")

\* One session from the countdown to the end screen.
NextStore ==
  \/ Elapse
  \/ CountdownTick
  \/ TimerTick
  \/ FlashEnd
  \/ Click

SpecStore == InitStore /\ [][NextStore]_vars

\* ------------------------------------------------------------- claims
\* The square square_id names, if it is on the canvas.
TargetItems == {canvas[i] : i \in {j \in DOMAIN canvas : canvas[j].id = square_id}}

InsideTarget(px, py) ==
  \E it \in TargetItems : /\ it.x1 <= px /\ px <= it.x2
                          /\ it.y1 <= py /\ py <= it.y2

\* The items of a kind on the canvas.
ItemsOf(kind) == {canvas[i] : i \in {j \in DOMAIN canvas : canvas[j].kind = kind}}

\* The end screen: final score text, Repeat and Close buttons, ranking header.
EndScreenShown ==
  /\ ItemsOf("final") # {}
  /\ HasButton(2)
  /\ HasButton(3)
  /\ ItemsOf("header") # {}

\* The count of the pending show_countdown callback.
CountdownRemaining ==
  IF \E i \in DOMAIN after_q : after_q[i].fn = "show_countdown"
  THEN (CHOOSE c \in {after_q[i].arg : i \in {j \in DOMAIN after_q :
                                               after_q[j].fn = "show_countdown"}} : TRUE)
  ELSE None

\* This step is handle_click on a canvas click / a show_countdown callback /
\* an update_timer callback (every handler records itself in ev; time
\* passing and clock changes move `now`).
IsClickStep == ev'.op = "click" /\ now' = now /\ vars' # vars
IsCountdownStep == ev'.op = "show_countdown" /\ now' = now /\ vars' # vars
IsTimerStep == ev'.op = "update_timer" /\ now' = now /\ vars' # vars

\* C1: whenever the phase is Running or Ended, score equals the number of
\* stored reaction-time samples, also in sessions started by Repeat.
C1_ScoreEqualsSamples ==
  Phase \in {"Running", "Ended"} => score = Len(reaction_times)

\* C2: when a session enters Running (the countdown callback with count 0
\* has run begin_game), score is 0, misses is 0 and the reaction-time list
\* is empty, for the first session and for every session started by Repeat.
C2_RunningStartsFresh ==
  (ev.op = "show_countdown" /\ ev.arg = 0 /\ game_running)
    => (score = 0 /\ misses = 0 /\ reaction_times = <<>>)

\* C3: a session that reaches Ended with zero hits shows its end screen:
\* end_game completes without a division by zero.
C3_ZeroHitsEndScreen ==
  (Phase = "Ended" /\ score = 0) => (EndScreenShown /\ raised = "none")

\* C4: a click while the phase is not Running changes no session state
\* (score, misses, samples, target, spawn time, phase) and raises no error.
C4_ClickIgnoredWhenNotRunning ==
  [][(IsClickStep /\ Phase # "Running") =>
       /\ UNCHANGED <<score, misses, reaction_times, click_count, square_id,
                      square_spawn_time, canvas, game_running, start_time,
                      time_left, last_row_id, csv>>
       /\ Phase' = Phase
       /\ raised' = "none"]_vars

C4_Witness ==
  /\ ev.op = "click"
  /\ Phase = "Ended"
  /\ EndScreenShown
  /\ score > 0

\* C5: during Running a click outside the current target adds exactly one
\* to misses and leaves score, the reaction-time list, the target's
\* position and its spawn time unchanged.
C5_MissFrame ==
  [][(IsClickStep /\ Phase = "Running" /\ ~InsideTarget(ev'.px, ev'.py)) =>
       /\ misses' = misses + 1
       /\ UNCHANGED <<score, reaction_times, square_id, square_spawn_time>>
       /\ TargetItems' = TargetItems]_vars

C5_Witness ==
  /\ ev.op = "click"
  /\ Phase = "Running"
  /\ ~InsideTarget(ev.px, ev.py)
  /\ misses = 1
  /\ click_count = 0
  /\ TargetItems # {}

\* C6: during Running a click inside the current target adds exactly one to
\* score and appends exactly one sample, the click time minus the hit
\* target's spawn time in ms floored at zero (so never negative); the target
\* is respawned and its spawn time recorded.
C6_HitRecordsFlooredSample ==
  [][(IsClickStep /\ Phase = "Running" /\ InsideTarget(ev'.px, ev'.py)) =>
       /\ score' = score + 1
       /\ reaction_times' = Append(reaction_times, Max(0, now - square_spawn_time))
       /\ \A i \in DOMAIN reaction_times' : reaction_times'[i] >= 0
       /\ square_id' # square_id
       /\ TargetItems' # {}
       /\ square_spawn_time' = now]_vars

\* C7: within a session the phases come in the order Countdown, Running,
\* Ended, none skipped or revisited; each countdown callback lowers the
\* countdown by one, and Running is entered on exactly the callback whose
\* count is zero.
C7_PhaseOrder ==
  [][/\ <<Phase, Phase'>> \in
          {<<"Countdown", "Countdown">>, <<"Countdown", "Running">>,
           <<"Running", "Running">>, <<"Running", "Ended">>,
           <<"Ended", "Ended">>, <<"Ended", "Countdown">>}
     /\ (Phase = "Ended" /\ Phase' = "Countdown") => sessions' = sessions + 1
     /\ sessions' # sessions => (Phase = "Ended" /\ Phase' = "Countdown")
     /\ IsCountdownStep =>
          /\ Phase = "Countdown"
          /\ ev'.arg = CountdownRemaining
          /\ IF ev'.arg > 0
             THEN Phase' = "Countdown" /\ CountdownRemaining' = ev'.arg - 1
             ELSE Phase' = "Running"
     /\ (Phase # "Running" /\ Phase' = "Running") =>
          (IsCountdownStep /\ ev'.arg = 0)]_vars

C7_Witness ==
  /\ sessions = 2
  /\ Phase = "Running"
  /\ ev.op = "show_countdown"
  /\ ev.arg = 0

\* C8: on every timer tick during Running the remaining time shown is
\* max(0, duration - (now - start)); from tick to tick it strictly decreases
\* and is never negative, and the phase becomes Ended on exactly the tick
\* where it is zero.
C8_RemainingStrictlyDecreases ==
  [][(IsTimerStep /\ Phase = "Running") =>
       /\ time_label' = Max(0, GAME_DURATION * MS - (now - start_time))
       /\ time_label' >= 0
       /\ time_label' < time_label
       /\ (Phase' = "Ended") <=> (time_label' = 0)]_vars

\* C9: after every spawn the target's position satisfies
\* 0 <= x <= WIDTH - SQUARE_SIZE and 0 <= y <= HEIGHT - SQUARE_SIZE.
C9_TargetInsideField ==
  \A it \in ItemsOf("square") :
    /\ 0 <= it.x1 /\ it.x1 <= WIDTH - SQUARE_SIZE
    /\ 0 <= it.y1 /\ it.y1 <= HEIGHT - SQUARE_SIZE

\* A fraction <<n, d>> is sc / (sc + mi), lies in [0, 1], and is 0 when
\* sc + mi is 0.
IsAccuracyOf(f, sc, mi) ==
  /\ f[2] > 0
  /\ 0 <= f[1] /\ f[1] <= f[2]
  /\ f[1] * (sc + mi) = sc * f[2]
  /\ (sc + mi = 0) => f[1] = 0

\* C10: the accuracy written to every score record and the accuracy shown
\* on the end screen equal score / (score + misses), are within [0, 1], and
\* are 0 when score + misses is 0.
C10_Accuracy ==
  /\ \A i \in DOMAIN csv : IsAccuracyOf(csv[i].accuracy, csv[i].score, csv[i].misses)
  /\ \A it \in ItemsOf("final") :
       /\ it.val[1] = score
       /\ IsAccuracyOf(<<it.val[2], it.val[3]>>, score, misses)
       /\ <<it.val[2], it.val[3]>> = csv[Len(csv)].accuracy

C10_Witness ==
  /\ Phase = "Ended"
  /\ ItemsOf("final") # {}
  /\ score = 1
  /\ misses = 1
  /\ csv[Len(csv)].accuracy = <<1, 2>>
  /\ csv[Len(csv)].score = 1

\* The ranking lines on the canvas, top to bottom.
IsRankingRow(it) == it.kind = "row"
RankingLines == SelectSeq(canvas, IsRankingRow)

\* What a ranking line shows: its rank, score and date; the number the
\* row has in the file (0-based); whether it is drawn as the current run.
RankOf(it) == it.val[1]
ScoreOf(it) == it.val[2]
DateOf(it) == it.val[5]
RecordIdOf(it) == it.val[6]
MarkedCurrent(it) == it.val[7] = 1

\* C11: the leaderboard shown at session end lists stored records in
\* non-increasing score order, has exactly min(10, number of stored
\* records) entries, the highest-scoring ones, and numbers them 1..N from
\* top to bottom.
C11_LeaderboardSortedTopTen ==
  ItemsOf("header") # {} =>
    LET L == RankingLines
        listed == {RecordIdOf(L[i]) + 1 : i \in DOMAIN L}
    IN  /\ Len(L) = (IF Len(csv) < 10 THEN Len(csv) ELSE 10)
        /\ \A i \in DOMAIN L :
              /\ RankOf(L[i]) = i
              /\ RecordIdOf(L[i]) + 1 \in DOMAIN csv
              /\ ScoreOf(L[i]) = csv[RecordIdOf(L[i]) + 1].score
        /\ \A i, j \in DOMAIN L :
              i < j => /\ ScoreOf(L[i]) >= ScoreOf(L[j])
                       /\ L[i].y1 < L[j].y1
                       /\ RecordIdOf(L[i]) # RecordIdOf(L[j])
        /\ \A k \in DOMAIN csv \ listed :
              \A i \in DOMAIN L : csv[k].score <= ScoreOf(L[i])

\* A file of more than ten rows is ranked: ten lines are shown.
C11_Witness ==
  /\ ItemsOf("header") # {}
  /\ Len(csv) > 10
  /\ Len(RankingLines) = 10

\* C12: a leaderboard entry is drawn as the current run exactly when its
\* record identifier (its 0-based position in the file) equals the
\* identifier save_score captured in last_row_id; so the run's own record
\* is marked when it is among the ten shown, and no other entry is.
C12_CurrentMarkedByRecordId ==
  ItemsOf("header") # {} =>
    \A i \in DOMAIN RankingLines :
      MarkedCurrent(RankingLines[i]) <=> (RecordIdOf(RankingLines[i]) = last_row_id)

\* C13: appending the session's record and reading the whole file back
\* yields that exact record as the last row, the earlier rows unchanged
\* and in their order, and last_row_id is the 0-based position of that
\* record.
C13_AppendThenReadBack ==
  [][csv' # csv =>
       LET record == [date |-> FormatDate(now), score |-> score, name |-> "",
                      misses |-> misses, accuracy |-> Accuracy(score, misses)]
           df == read_csv(csv')
       IN  /\ Len(df) = Len(csv) + 1
           /\ df[Len(df)] = record
           /\ SubSeq(df, 1, Len(csv)) = read_csv(csv)
           /\ last_row_id' = Len(df) - 1]_vars

\* C14: when appending the record or reading the file fails at session
\* end, the end screen still shows the final score and accuracy (only the
\* leaderboard may be missing), with the score and accuracy as computed.
C14_EndScreenDespiteStoreFailure ==
  (Phase = "Ended" /\ raised \in {"OSError", "ParserError"}) =>
    \E f \in ItemsOf("final") :
      /\ f.val[1] = score
      /\ IsAccuracyOf(<<f.val[2], f.val[3]>>, score, misses)

\* C15: among stored records of equal score the leaderboard shows the
\* one with the earlier date-time first, so that one file always gives one
\* order.
C15_TiesByEarlierDate ==
  ItemsOf("header") # {} =>
    \A i, j \in DOMAIN RankingLines :
      (i < j /\ ScoreOf(RankingLines[i]) = ScoreOf(RankingLines[j]))
        => DateOf(RankingLines[i]) <= DateOf(RankingLines[j])

\* C16: each session that reaches Ended appends exactly one record to the
\* file, and no step ever changes or removes a record already stored,
\* however many sessions Repeat starts.
C16_OneAppendPerSession ==
  [][IF Phase = "Running" /\ Phase' = "Ended"
     THEN /\ Len(csv') = Len(csv) + 1
          /\ SubSeq(csv', 1, Len(csv)) = csv
     ELSE csv' = csv]_vars

\* A session started by Repeat has ended: the file holds the earlier row
\* and one row for each of the two sessions.
C16_Witness ==
  /\ sessions = 2
  /\ Phase = "Ended"
  /\ ev.op = "update_timer"
  /\ Len(csv) = 3

\* C17: in every state between events in which a session is running,
\* exactly one target is on the play-field and it is the one square_id
\* names, also right after a hit and in sessions started by Repeat; a
\* respawn has removed the old target when the new one is there.
C17_ExactlyOneTarget ==
  /\ [](game_running =>
          /\ Cardinality(ItemsOf("square")) = 1
          /\ TargetItems = ItemsOf("square"))
  /\ [][square_id' # square_id =>
          \A i \in DOMAIN canvas' : canvas'[i].id # square_id]_vars

\* Right after the first hit of a session: the respawned square is on the
\* canvas.
C17_Witness ==
  /\ game_running
  /\ ev.op = "click"
  /\ score = 1
  /\ misses = 0
  /\ square_spawn_time = now
  /\ TargetItems # {}

\* The clock reads the session's start plus its duration, or later.
DurationOver == start_time # None /\ now - start_time >= GAME_DURATION * MS

\* C18 as stated: a click delivered at or after session start + session
\* duration, before the next timer callback has run, counts neither as
\* hit nor as miss: score, misses and the samples stay as they are.
C18_NoCountAfterDuration ==
  [][(IsClickStep /\ DurationOver) =>
       UNCHANGED <<score, misses, reaction_times>>]_vars

\* C18, amended: a click delivered at or after session start + session
\* duration is still counted (one hit with its sample, or one miss) as
\* long as the timer callback has not ended the session; once it has,
\* the click changes neither score nor misses nor the samples.
C18_CountedUntilTimerEnds ==
  [][(IsClickStep /\ DurationOver) =>
       IF game_running
       THEN \/ /\ score' = score + 1
               /\ Len(reaction_times') = Len(reaction_times) + 1
               /\ misses' = misses
            \/ /\ misses' = misses + 1
               /\ score' = score
               /\ reaction_times' = reaction_times
       ELSE UNCHANGED <<score, misses, reaction_times>>]_vars

\* A hit was just counted at a clock reading past the session's duration.
C18_Witness ==
  /\ game_running
  /\ DurationOver
  /\ ev.op = "click"
  /\ score = 1
  /\ square_spawn_time = now
  /\ adjusts = 0

\* The pending callbacks that schedule themselves again: show_countdown
\* and update_timer.
ChainCallbacks ==
  {i \in DOMAIN after_q : after_q[i].fn \in {"show_countdown", "update_timer"}}

\* C19: at every moment at most one self-rescheduling callback is pending
\* (one show_countdown or one update_timer, never both, never two of a
\* kind), and after construction start_game runs only while the phase is
\* Ended, with no such callback pending.
C19_SingleTimerChain ==
  /\ [](Cardinality(ChainCallbacks) <= 1)
  /\ [][sessions' # sessions => (Phase = "Ended" /\ ChainCallbacks = {})]_vars

\* Repeat has just run start_game: the new countdown is the one chain.
C19_Witness ==
  /\ ev.op = "repeat"
  /\ sessions = 2
  /\ Phase = "Countdown"
  /\ Cardinality(ChainCallbacks) = 1

\* The clock readings of the model that a countdown callback and a whole
\* session take: the delay rounded up to steps of the clock.
StepsOf(ms) == ((ms + ClockStep - 1) \div ClockStep) * ClockStep
CountdownSpan == (CountdownRemaining + 1) * StepsOf(COUNTDOWN_DELAY)
RunSpan == StepsOf(GAME_DURATION * MS)

\* C20: when the due callbacks are run and the clock keeps advancing, a
\* session that is started leaves Countdown for Running, and a running
\* session reaches Ended with end_game having saved its row, whatever
\* clicks come in between (for the sessions that end before the last clock
\* reading of the model).
C20_SessionTerminates ==
  /\ (Phase = "Countdown" /\ now + CountdownSpan + RunSpan <= MaxClock)
        ~> (Phase = "Running")
  /\ (Phase = "Running" /\ start_time + RunSpan <= MaxClock)
        ~> (Phase = "Ended" /\ ev.op = "update_timer"
                            /\ last_row_id = Len(csv) - 1)

\* The session started by Repeat has ended as well.
C20_Witness ==
  /\ sessions = 2
  /\ Phase = "Ended"
  /\ ev.op = "update_timer"
  /\ misses > 0
  /\ last_row_id = Len(csv) - 1
====
